---------------------------- MODULE Spec2Model ----------------------------
(***************************************************************************)
(* zip-smith: a Worker that validates a list of (url, filename) entries,   *)
(* derives a cache key from it, serves the archive from the cache or       *)
(* downloads every file, assembles the archive, schedules the cache store  *)
(* and answers.  Model of src/src/index.ts.                                *)
(*                                                                         *)
(* Strings are TLA+ strings; the JavaScript string operations the handler  *)
(* uses (startsWith, endsWith, toLowerCase, localeCompare, join, template  *)
(* literals) are operators over them.  SHA-256 is an injective constructor *)
(* over its input.  An archive is the sequence of its members.             *)
(***************************************************************************)
EXTENDS Integers, Sequences, FiniteSets, TLC

(***************************************************************************)
(* Bounds of the model.                                                    *)
(***************************************************************************)
MaxFiles == 2
MaxCacheEntries == 1

Slots == {1, 2}

(***************************************************************************)
(* JavaScript string operations.                                           *)
(***************************************************************************)
startsWith(s, p) == Len(s) >= Len(p) /\ SubSeq(s, 1, Len(p)) = p

endsWith(s, p) == Len(s) >= Len(p) /\ SubSeq(s, Len(s) - Len(p) + 1, Len(s)) = p

UpperCase == "ABCDEFGHIJKLMNOPQRSTUVWXYZ"
LowerCase == "abcdefghijklmnopqrstuvwxyz"

\* Position of the one-character string c in the string table, 0 when absent.
IndexIn(c, table) ==
    IF \E i \in 1..Len(table) : SubSeq(table, i, i) = c
    THEN CHOOSE i \in 1..Len(table) : SubSeq(table, i, i) = c
    ELSE 0

lowerChar(c) ==
    IF IndexIn(c, UpperCase) = 0 THEN c
    ELSE SubSeq(LowerCase, IndexIn(c, UpperCase), IndexIn(c, UpperCase))

RECURSIVE toLowerCase(_)
toLowerCase(s) ==
    IF s = "" THEN ""
    ELSE lowerChar(SubSeq(s, 1, 1)) \o toLowerCase(SubSeq(s, 2, Len(s)))

\* String.prototype.localeCompare under the root collation, for the ASCII
\* characters the requests use: punctuation before digits before letters at
\* the primary level (case folded); case (lower first) breaks ties only when
\* the whole strings are equal at the primary level.
CollationOrder == " _-,;:!?.()@*/&#%+<=>|~$0123456789abcdefghijklmnopqrstuvwxyz"

primaryWeight(c) == IndexIn(lowerChar(c), CollationOrder)

tertiaryWeight(c) == IF IndexIn(c, UpperCase) = 0 THEN 0 ELSE 1

RECURSIVE compareBy(_, _, _)
compareBy(a, b, level) ==
    IF a = "" /\ b = "" THEN 0
    ELSE IF a = "" THEN -1
    ELSE IF b = "" THEN 1
    ELSE LET wa == IF level = 1 THEN primaryWeight(SubSeq(a, 1, 1))
                   ELSE tertiaryWeight(SubSeq(a, 1, 1))
             wb == IF level = 1 THEN primaryWeight(SubSeq(b, 1, 1))
                   ELSE tertiaryWeight(SubSeq(b, 1, 1))
         IN  IF wa < wb THEN -1
             ELSE IF wa > wb THEN 1
             ELSE compareBy(SubSeq(a, 2, Len(a)), SubSeq(b, 2, Len(b)), level)

localeCompare(a, b) ==
    IF compareBy(a, b, 1) # 0 THEN compareBy(a, b, 1) ELSE compareBy(a, b, 3)

RECURSIVE join(_, _)
join(parts, sep) ==
    IF Len(parts) = 0 THEN ""
    ELSE IF Len(parts) = 1 THEN parts[1]
    ELSE parts[1] \o sep \o join(Tail(parts), sep)

(***************************************************************************)
(* new URL(url).protocol: the scheme up to and including the first ':',    *)
(* lower-cased, or "invalid" when the constructor throws (no scheme, or an *)
(* http/https url without a host).                                         *)
(***************************************************************************)
SchemeChars == LowerCase \o UpperCase \o "0123456789+-."

RECURSIVE skipSlashes(_)
skipSlashes(s) ==
    IF s # "" /\ SubSeq(s, 1, 1) = "/" THEN skipSlashes(SubSeq(s, 2, Len(s))) ELSE s

URLprotocol(url) ==
    LET colon == IndexIn(":", url)
        scheme == toLowerCase(SubSeq(url, 1, colon))
    IN  IF colon <= 1 THEN "invalid"
        ELSE IF IndexIn(lowerChar(SubSeq(url, 1, 1)), LowerCase) = 0 THEN "invalid"
        ELSE IF \E i \in 1..(colon - 1) : IndexIn(SubSeq(url, i, i), SchemeChars) = 0
             THEN "invalid"
        ELSE IF scheme \in {"http:", "https:"}
                /\ skipSlashes(SubSeq(url, colon + 1, Len(url))) = ""
             THEN "invalid"
        ELSE scheme

(***************************************************************************)
(* Request bodies.  An entry of body.files is a JSON value: an object with *)
(* url and filename ("" stands for a missing or empty property: both are   *)
(* falsy) or null.                                                         *)
(***************************************************************************)
allowedPrefixes ==
    << "https://github.com/EssentialsX/Essentials/",
       "https://ci.ender.zone/job/EssentialsX/" >>

UrlA == "https://github.com/EssentialsX/Essentials/a"
UrlB == "https://ci.ender.zone/job/EssentialsX/b"
UrlEvil == "https://evil.example/a"
UrlFtp == "ftp://github.com/EssentialsX/Essentials/a"
UrlRelative == "github.com/EssentialsX/Essentials/a"

File(u, f) == [kind |-> "object", url |-> u, filename |-> f]
NullEntry == [kind |-> "null", url |-> "", filename |-> ""]

\* Entries that pass validation: two with different urls, and one that
\* shares its url with the first and whose filename contains the separator.
GoodEntries ==
    { File(UrlB, "x.JAR"), File(UrlA, "y"),
      File(UrlB, "x.JAR|" \o UrlA \o "|y.jar") }

BadEntries ==
    { File(UrlEvil, "x.jar"), File(UrlFtp, "x.jar"), File(UrlRelative, "x.jar"),
      File("", "x.jar"), File(UrlA, ""), NullEntry }

Entries == GoodEntries \cup BadEntries

ZipNames == {"", "pack.zip"}

\* The lists of at most n different entries of E, in every order.
FileLists(E, n) ==
    { fs \in UNION { [1..k -> E] : k \in 0..n } :
        \A i, j \in DOMAIN fs : i # j => fs[i] # fs[j] }

Body(kind, files, zipFilename) ==
    [kind |-> kind, files |-> files, zipFilename |-> zipFilename]

\* Bodies that pass validation: every list of different good entries, and
\* one list that names the same entry twice.
GoodLists ==
    (FileLists(GoodEntries, MaxFiles) \ {<<>>})
    \cup { << File(UrlA, "y"), File(UrlA, "y") >> }

GoodBodies == { Body("array", fs, z) : fs \in GoodLists, z \in ZipNames }

\* Bodies that do not: kind "badJson" (request.json() throws), "noFiles" (no
\* files property), "notArray" (files is not an array), an empty array, and
\* every list with a bad entry.
MalformedBodies ==
    { Body("badJson", <<>>, ""), Body("noFiles", <<>>, ""), Body("notArray", <<>>, ""),
      Body("array", <<>>, "") }
    \cup { Body("array", fs, "") :
             fs \in { l \in FileLists(Entries, MaxFiles) :
                        \E i \in DOMAIN l : l[i] \in BadEntries } }

Bodies == GoodBodies \cup MalformedBodies

\* The bodies of the workload in which two handlers run at once.
RaceBodies ==
    { Body("array", fs, "") :
        fs \in { << File(UrlA, "y"), File(UrlB, "x.JAR") >>,
                 << File(UrlB, "x.JAR"), File(UrlA, "y") >> } }

Methods == {"POST", "OPTIONS", "GET"}

(***************************************************************************)
(* Responses.                                                              *)
(***************************************************************************)
NoBody == [type |-> "none", text |-> "", zip |-> <<>>]
Text(t) == [type |-> "text", text |-> t, zip |-> <<>>]
Zip(data) == [type |-> "zip", text |-> "", zip |-> data]

Response(body, status, headers) == [status |-> status, headers |-> headers, body |-> body]

NoResponse == Response(NoBody, 0, <<>>)
NoHeaders == <<>>
CorsHeaders == "Access-Control-Allow-Origin" :> "*"

BadRequest(text) == Response(Text(text), 400, CorsHeaders)

\* The catch of the fetch handler.
InternalServerError(message) ==
    Response(Text("Internal Server Error: " \o message), 500, CorsHeaders)

Preflight ==
    Response(NoBody, 200,
             ("Access-Control-Allow-Origin" :> "*")
             @@ ("Access-Control-Allow-Methods" :> "GET, POST, OPTIONS")
             @@ ("Access-Control-Allow-Headers" :> "Content-Type"))

MethodNotAllowed == Response(Text("Method not allowed"), 405, NoHeaders)

\* Mutant of createZipResponse: the name of the request is used as given,
\* without the fallback.
createZipResponse_nodefault(data, etag, filename) ==
    Response(Zip(data), 200,
             ("Content-Type" :> "application/zip")
             @@ ("Content-Disposition" :> ("attachment; filename=\"" \o filename \o "\""))
             @@ ("ETag" :> etag)
             @@ ("Cache-Control" :> "public, max-age=31536000, immutable")
             @@ ("Access-Control-Allow-Origin" :> "*"))

createZipResponse(data, etag, filename) ==
    LET zipFilename == IF filename = "" THEN "jars.zip" ELSE filename
    IN  Response(Zip(data), 200,
                 ("Content-Type" :> "application/zip")
                 @@ ("Content-Disposition" :> ("attachment; filename=\"" \o zipFilename \o "\""))
                 @@ ("ETag" :> etag)
                 @@ ("Cache-Control" :> "public, max-age=31536000, immutable")
                 @@ ("Access-Control-Allow-Origin" :> "*"))

(***************************************************************************)
(* Validation of body.files (the loop of handlePostRequest).               *)
(***************************************************************************)
isAllowedSource(url) == \E i \in 1..Len(allowedPrefixes) : startsWith(url, allowedPrefixes[i])

\* Mutant of normalizeFilename: the suffix is compared case-sensitively.
normalizeFilename_caseSensitive(filename) ==
    IF endsWith(filename, ".jar") THEN filename ELSE filename \o ".jar"

normalizeFilename(filename) ==
    IF endsWith(toLowerCase(filename), ".jar") THEN filename ELSE filename \o ".jar"

Valid(files) == [outcome |-> "ok", response |-> NoResponse, validFiles |-> files]
Rejected(resp) == [outcome |-> "rejected", response |-> resp, validFiles |-> <<>>]
\* Reading a property of null throws; the fetch handler's catch answers.
Thrown(message) ==
    [outcome |-> "thrown", response |-> InternalServerError(message), validFiles |-> <<>>]

RECURSIVE validateFiles(_, _)
validateFiles(files, validFiles) ==
    IF Len(files) = 0 THEN
        IF Len(validFiles) = 0
        THEN Rejected(BadRequest("No valid files provided"))
        ELSE Valid(validFiles)
    ELSE LET file == Head(files) IN
        IF file.kind = "null" THEN
            Thrown("Cannot read properties of null (reading 'url')")
        ELSE IF file.url = "" \/ file.filename = "" THEN
            Rejected(BadRequest("Each file must have both url and filename properties"))
        ELSE IF URLprotocol(file.url) = "invalid" THEN
            Rejected(BadRequest("Invalid URL format: " \o file.url))
        ELSE IF URLprotocol(file.url) \notin {"http:", "https:"} THEN
            Rejected(BadRequest("Invalid URL protocol: " \o file.url))
        ELSE IF ~isAllowedSource(file.url) THEN
            Rejected(BadRequest("URL must start with one of the allowed EssentialsX sources: "
                                \o join(allowedPrefixes, ", ") \o ". Got: " \o file.url))
        ELSE validateFiles(Tail(files),
                           Append(validFiles,
                                  [url |-> file.url,
                                   filename |-> normalizeFilename(file.filename)]))

validate(body) ==
    IF body.kind = "badJson" THEN Thrown("Unexpected token in JSON")
    ELSE IF body.kind \in {"noFiles", "notArray"} \/ Len(body.files) = 0 THEN
        Rejected(BadRequest("Invalid request: files array is required"))
    ELSE validateFiles(body.files, <<>>)

(***************************************************************************)
(* Cache key derivation.                                                   *)
(***************************************************************************)
\* A digest is modelled by its preimage: injective, as a collision-resistant
\* hash is taken to be.
SHA256(input) == [sha256 |-> input]

\* Array.prototype.sort is stable: f goes after every element that does not
\* compare greater than it.
RECURSIVE insertSorted(_, _)
insertSorted(sorted, f) ==
    IF Len(sorted) = 0 THEN << f >>
    ELSE IF localeCompare(Head(sorted).url, f.url) <= 0
         THEN << Head(sorted) >> \o insertSorted(Tail(sorted), f)
         ELSE << f >> \o sorted

RECURSIVE sortByUrl(_)
sortByUrl(files) ==
    IF Len(files) = 0 THEN <<>>
    ELSE insertSorted(sortByUrl(SubSeq(files, 1, Len(files) - 1)), files[Len(files)])

generateCacheKey(urls) == SHA256(join(urls, "|"))

cacheKeyOf(validFiles) ==
    LET sortedFiles == sortByUrl(validFiles)
    IN  generateCacheKey([i \in 1..Len(sortedFiles) |->
                             sortedFiles[i].url \o "|" \o sortedFiles[i].filename])

\* The first 16 hex characters of the digest: a function of the bytes.
generateETag(data) == [sha256_16 |-> data]

(***************************************************************************)
(* Downloading and assembling (createZipFromFiles, createZip).             *)
(***************************************************************************)
\* The bytes the origin serves at url.
OriginBytes(url) == "bytes of " \o url

\* What the runtime's fetch (or response.arrayBuffer) rejects with.
RuntimeErrorMessage == "Network connection lost."

\* "ok": 2xx and the body was read; "status": a non-2xx answer; "raised":
\* fetch or the body read rejected.
FetchOutcomes == {"ok", "status", "raised"}

Pending(file) ==
    [status |-> "pending", url |-> file.url, filename |-> file.filename,
     data |-> "", reason |-> ""]

\* One callback of files.map in createZipFromFiles, settled.
download(file, outcome) ==
    IF outcome = "ok" THEN
        [status |-> "fulfilled", url |-> file.url, filename |-> file.filename,
         data |-> OriginBytes(file.url), reason |-> ""]
    ELSE IF outcome = "status" THEN
        [status |-> "rejected", url |-> file.url, filename |-> file.filename, data |-> "",
         reason |-> "Failed to download " \o file.url \o ": 404 Not Found"]
    ELSE
        [status |-> "rejected", url |-> file.url, filename |-> file.filename, data |-> "",
         reason |-> RuntimeErrorMessage]

\* Mutant of allSettled: Promise.all, which also settles as soon as one
\* download is rejected.
allSettled_failFast(downloads) ==
    \/ \A i \in 1..Len(downloads) : downloads[i].status # "pending"
    \/ \E i \in 1..Len(downloads) : downloads[i].status = "rejected"

\* Promise.allSettled resolves once no download is pending.
allSettled(downloads) == \A i \in 1..Len(downloads) : downloads[i].status # "pending"

Threw(message) == [threw |-> TRUE, message |-> message, data |-> <<>>]
Returned(data) == [threw |-> FALSE, message |-> "", data |-> data]

\* Mutant of createZip: the members are written last file first.
createZip_reversed(files) ==
    IF \E i, j \in 1..Len(files) : i # j /\ files[i].filename = files[j].filename
    THEN Threw("File already exists")
    ELSE Returned([i \in 1..Len(files) |->
                      [filename |-> files[Len(files) + 1 - i].filename,
                       data |-> files[Len(files) + 1 - i].data]])

\* ZipWriter.add rejects a name the archive already holds; otherwise the
\* members are written in the order of the add calls.
createZip(files) ==
    IF \E i, j \in 1..Len(files) : i # j /\ files[i].filename = files[j].filename
    THEN Threw("File already exists")
    ELSE Returned([i \in 1..Len(files) |->
                      [filename |-> files[i].filename, data |-> files[i].data]])

isRejected(result) == result.status = "rejected"
isFulfilled(result) == result.status = "fulfilled"

\* Mutant of createZipFromFiles: the failed downloads are skipped and the
\* archive is assembled from the fulfilled ones.
createZipFromFiles_partial(downloads) ==
    createZip(SelectSeq(downloads, isFulfilled))

createZipFromFiles(downloads) ==
    LET failed == SelectSeq(downloads, isRejected)
        errors == join([i \in 1..Len(failed) |-> failed[i].reason], ", ")
        downloadedFiles == SelectSeq(downloads, isFulfilled)
    IN  IF Len(failed) > 0
        THEN Threw("Failed to download some files: " \o errors)
        ELSE createZip(downloadedFiles)

(***************************************************************************)
(* State.                                                                  *)
(***************************************************************************)
VARIABLES
    workload,    \* the bodies requests are drawn from, and how many run at once
    pc,          \* per slot: "idle", "lookup", "fetching", "storing", "done"
    request,     \* per slot: [method, body]
    validFiles,  \* per slot: the validated entries, in request order
    cacheKey,    \* per slot: the derived key
    lookup,      \* per slot: "none", "hit", "absent", "error"
    downloads,   \* per slot: the results of Promise.allSettled, by entry
    fetched,     \* per slot: the urls fetch was called with, in call order
    store,       \* per slot: the cacheZip task handed to ctx.waitUntil
    response,    \* per slot: the response returned to the client
    cache        \* the 'jar-proxy:zips' cache: key -> entry

vars == << workload, pc, request, validFiles, cacheKey, lookup, downloads,
           fetched, store, response, cache >>

NoKey == SHA256("")
NoETag == generateETag(<<>>)
NoRequest == [method |-> "", body |-> Body("noFiles", <<>>, "")]
NoStore == [state |-> "none", key |-> NoKey, data |-> <<>>, etag |-> NoETag,
            awaited |-> FALSE]

\* Requests rejected by validation never reach the cache, so they are a
\* workload of their own; "serial" handles one valid request at a time and
\* "race" two at once.
Workloads == {"serial", "malformed", "race"}
Pool(w) ==
    IF w = "serial" THEN GoodBodies
    ELSE IF w = "malformed" THEN MalformedBodies
    ELSE RaceBodies
Handlers(w) == IF w = "race" THEN 2 ELSE 1

Init ==
    /\ workload \in Workloads
    /\ pc = [r \in Slots |-> "idle"]
    /\ request = [r \in Slots |-> NoRequest]
    /\ validFiles = [r \in Slots |-> <<>>]
    /\ cacheKey = [r \in Slots |-> NoKey]
    /\ lookup = [r \in Slots |-> "none"]
    /\ downloads = [r \in Slots |-> <<>>]
    /\ fetched = [r \in Slots |-> <<>>]
    /\ store = [r \in Slots |-> NoStore]
    /\ response = [r \in Slots |-> NoResponse]
    /\ cache = <<>>

(***************************************************************************)
(* The cache backend.                                                      *)
(***************************************************************************)
BackendOutcomes == {"ok", "error"}

NotCached == [found |-> FALSE, data |-> <<>>, etag |-> NoETag]

\* Mutant of getCachedZip: the tag is not read from the entry.
getCachedZip_noTag(key, backend) ==
    IF backend = "error" THEN [threw |-> FALSE, value |-> NotCached]
    ELSE IF key \in DOMAIN cache
         THEN [threw |-> FALSE,
               value |-> [found |-> TRUE, data |-> cache[key].data, etag |-> NoETag]]
         ELSE [threw |-> FALSE, value |-> NotCached]

\* Mutant of getCachedZip: without the try/catch a backend error propagates.
getCachedZip_propagates(key, backend) ==
    IF backend = "error" THEN [threw |-> TRUE, value |-> NotCached]
    ELSE IF key \in DOMAIN cache
         THEN [threw |-> FALSE,
               value |-> [found |-> TRUE, data |-> cache[key].data, etag |-> cache[key].etag]]
         ELSE [threw |-> FALSE, value |-> NotCached]

\* getCachedZip: a backend error is caught and answered as null.
getCachedZip(key, backend) ==
    IF backend = "error" THEN [threw |-> FALSE, value |-> NotCached]
    ELSE IF key \in DOMAIN cache
         THEN [threw |-> FALSE,
               value |-> [found |-> TRUE, data |-> cache[key].data, etag |-> cache[key].etag]]
         ELSE [threw |-> FALSE, value |-> NotCached]

\* Mutant of CachePut: the entry is put under a key that is not the
\* request's.
CachePut_otherKey(key, entry) ==
    cache' = [k \in {NoKey} |-> entry]

\* Mutant of CachePut: a put over an entry replaces the bytes and keeps the
\* tag of the entry it overwrites.
CachePut_torn(key, entry) ==
    \E kept \in SUBSET (DOMAIN cache \ {key}) :
        /\ Cardinality(kept) + 1 <= MaxCacheEntries
        /\ \/ Cardinality(kept) + 1 = MaxCacheEntries
           \/ kept = DOMAIN cache \ {key}
        /\ cache' = [k \in kept \cup {key} |->
                        IF k # key THEN cache[k]
                        ELSE IF key \in DOMAIN cache
                             THEN [entry EXCEPT !.etag = cache[key].etag]
                             ELSE entry]

\* cache.put: the entry replaces the one under the key; a full cache makes
\* room first (eviction is the backend's).  files records the validated
\* list of the storing request.
CachePut(key, entry) ==
    \E kept \in SUBSET (DOMAIN cache \ {key}) :
        /\ Cardinality(kept) + 1 <= MaxCacheEntries
        /\ \/ Cardinality(kept) + 1 = MaxCacheEntries
           \/ kept = DOMAIN cache \ {key}
        /\ cache' = [k \in kept \cup {key} |-> IF k = key THEN entry ELSE cache[k]]

inFlight == {r \in Slots : pc[r] # "idle"}

(***************************************************************************)
(* The handler.                                                            *)
(***************************************************************************)
\* Mutant of waitUntil: the handler awaits the task before it answers.
waitUntil_awaited(task) == [task EXCEPT !.awaited = TRUE]

\* ctx.waitUntil(task): the task runs detached from the response.
waitUntil(task) == [task EXCEPT !.awaited = FALSE]

Answer(r, resp) ==
    /\ response' = [response EXCEPT ![r] = resp]
    /\ pc' = [pc EXCEPT ![r] = "done"]

\* fetch, for a method other than POST.
NonPost(r, method) ==
    /\ request' = [request EXCEPT ![r] = [method |-> method, body |-> NoRequest.body]]
    /\ Answer(r, IF method = "OPTIONS" THEN Preflight ELSE MethodNotAllowed)
    /\ UNCHANGED << validFiles, cacheKey >>

\* fetch and handlePostRequest up to the cache lookup: parsing, validation
\* and key derivation.
Post(r, body) ==
    LET v == validate(body) IN
    /\ request' = [request EXCEPT ![r] = [method |-> "POST", body |-> body]]
    /\ IF v.outcome = "ok"
       THEN /\ validFiles' = [validFiles EXCEPT ![r] = v.validFiles]
            /\ cacheKey' = [cacheKey EXCEPT ![r] = cacheKeyOf(v.validFiles)]
            /\ pc' = [pc EXCEPT ![r] = "lookup"]
            /\ UNCHANGED response
       ELSE /\ Answer(r, v.response)
            /\ UNCHANGED << validFiles, cacheKey >>

Receive(r) ==
    /\ pc[r] = "idle"
    /\ \A s \in Slots : s < r => pc[s] # "idle"
    /\ Cardinality(inFlight) < Handlers(workload)
    /\ \E method \in Methods :
          IF method = "POST"
          THEN \E body \in Pool(workload) : Post(r, body)
          ELSE NonPost(r, method)
    /\ UNCHANGED << workload, lookup, downloads, fetched, store, cache >>

\* await getCachedZip(cacheKey); on a hit the response is built from the
\* entry, otherwise createZipFromFiles starts one fetch per validated file.
Lookup(r) ==
    /\ pc[r] = "lookup"
    /\ \E backend \in BackendOutcomes :
          LET got == getCachedZip(cacheKey[r], backend) IN
          /\ lookup' = [lookup EXCEPT ![r] =
                           IF backend = "error" THEN "error"
                           ELSE IF got.value.found THEN "hit" ELSE "absent"]
          /\ IF got.threw THEN
                 /\ Answer(r, InternalServerError("cache lookup failed"))
                 /\ UNCHANGED << downloads, fetched >>
             ELSE IF got.value.found THEN
                 /\ Answer(r, createZipResponse(got.value.data, got.value.etag,
                                                request[r].body.zipFilename))
                 /\ UNCHANGED << downloads, fetched >>
             ELSE
                 /\ downloads' = [downloads EXCEPT ![r] =
                                     [i \in 1..Len(validFiles[r]) |-> Pending(validFiles[r][i])]]
                 /\ fetched' = [fetched EXCEPT ![r] =
                                   [i \in 1..Len(validFiles[r]) |-> validFiles[r][i].url]]
                 /\ pc' = [pc EXCEPT ![r] = "fetching"]
                 /\ UNCHANGED response
    /\ UNCHANGED << workload, request, validFiles, cacheKey, store, cache >>

\* Mutant of Settle: the results are collected in the order in which the
\* downloads complete, not by the position of their file.
Settle_byCompletion(r, i) ==
    /\ pc[r] = "fetching"
    /\ i \in 1..Len(downloads[r])
    /\ \A k \in 1..Len(downloads[r]) :
          downloads[r][k].status # "pending" => downloads[r][k].url # validFiles[r][i].url
    /\ \E k \in 1..Len(downloads[r]) :
          /\ downloads[r][k].status = "pending"
          /\ \A j \in 1..(k - 1) : downloads[r][j].status # "pending"
          /\ \E outcome \in FetchOutcomes :
                downloads' = [downloads EXCEPT ![r][k] = download(validFiles[r][i], outcome)]
    /\ UNCHANGED << workload, pc, request, validFiles, cacheKey, lookup, fetched,
                    store, response, cache >>

\* Mutant of Settle: a download that fails is fetched again.
Settle_retry(r, i) ==
    /\ pc[r] = "fetching"
    /\ i \in 1..Len(downloads[r])
    /\ downloads[r][i].status = "pending"
    /\ \E outcome \in FetchOutcomes :
          IF outcome = "ok"
          THEN /\ downloads' = [downloads EXCEPT
                                   ![r][i] = download(validFiles[r][i], outcome)]
               /\ UNCHANGED fetched
          ELSE /\ fetched' = [fetched EXCEPT ![r] = Append(@, validFiles[r][i].url)]
               /\ UNCHANGED downloads
    /\ UNCHANGED << workload, pc, request, validFiles, cacheKey, lookup,
                    store, response, cache >>

\* One download settles.
Settle(r, i) ==
    /\ pc[r] = "fetching"
    /\ i \in 1..Len(downloads[r])
    /\ downloads[r][i].status = "pending"
    /\ \E outcome \in FetchOutcomes :
          downloads' = [downloads EXCEPT ![r][i] = download(validFiles[r][i], outcome)]
    /\ UNCHANGED << workload, pc, request, validFiles, cacheKey, lookup, fetched,
                    store, response, cache >>

\* The rest of createZipFromFiles and of handlePostRequest: the aggregate
\* error or the archive, its tag, the store handed to waitUntil, the answer.
Join(r) ==
    /\ pc[r] = "fetching"
    /\ allSettled(downloads[r])
    /\ LET zipData == createZipFromFiles(downloads[r]) IN
       IF zipData.threw THEN
           /\ Answer(r, InternalServerError(zipData.message))
           /\ UNCHANGED store
       ELSE
           LET etag == generateETag(zipData.data)
               task == waitUntil([state |-> "pending", key |-> cacheKey[r],
                                  data |-> zipData.data, etag |-> etag, awaited |-> FALSE])
           IN  /\ store' = [store EXCEPT ![r] = task]
               /\ IF task.awaited
                  THEN pc' = [pc EXCEPT ![r] = "storing"] /\ UNCHANGED response
                  ELSE Answer(r, createZipResponse(zipData.data, etag,
                                                   request[r].body.zipFilename))
    /\ UNCHANGED << workload, request, validFiles, cacheKey, lookup, downloads,
                    fetched, cache >>

\* cacheZip runs to its end: cache.put stores the entry, or the backend
\* fails and the error is logged.
StoreSettle(r) ==
    /\ store[r].state = "pending"
    /\ \E backend \in BackendOutcomes :
          IF backend = "ok"
          THEN /\ CachePut(store[r].key,
                           [data |-> store[r].data, etag |-> store[r].etag,
                            files |-> validFiles[r]])
               /\ store' = [store EXCEPT ![r].state = "stored"]
          ELSE /\ store' = [store EXCEPT ![r].state = "failed"]
               /\ UNCHANGED cache
    /\ IF pc[r] = "storing"
       THEN Answer(r, createZipResponse(store[r].data, store[r].etag,
                                        request[r].body.zipFilename))
       ELSE UNCHANGED << pc, response >>
    /\ UNCHANGED << workload, request, validFiles, cacheKey, lookup, downloads, fetched >>

\* The backend drops an entry.
Evict(k) ==
    /\ k \in DOMAIN cache
    /\ cache' = [j \in DOMAIN cache \ {k} |-> cache[j]]
    /\ UNCHANGED << workload, pc, request, validFiles, cacheKey, lookup, downloads,
                    fetched, store, response >>

\* The answered request leaves; a store still pending never completes.
Retire(r) ==
    /\ pc[r] = "done"
    /\ pc' = [pc EXCEPT ![r] = "idle"]
    /\ request' = [request EXCEPT ![r] = NoRequest]
    /\ validFiles' = [validFiles EXCEPT ![r] = <<>>]
    /\ cacheKey' = [cacheKey EXCEPT ![r] = NoKey]
    /\ lookup' = [lookup EXCEPT ![r] = "none"]
    /\ downloads' = [downloads EXCEPT ![r] = <<>>]
    /\ fetched' = [fetched EXCEPT ![r] = <<>>]
    /\ store' = [store EXCEPT ![r] = NoStore]
    /\ response' = [response EXCEPT ![r] = NoResponse]
    /\ UNCHANGED << workload, cache >>

Next ==
    \/ \E r \in Slots : Receive(r)
    \/ \E r \in Slots : Lookup(r)
    \/ \E r \in Slots, i \in 1..MaxFiles : Settle(r, i)
    \/ \E r \in Slots : Join(r)
    \/ \E r \in Slots : StoreSettle(r)
    \/ \E k \in DOMAIN cache : Evict(k)
    \/ \E r \in Slots : Retire(r)

Spec == Init /\ [][Next]_vars

\* The runtime resumes a handler whose awaited promise has settled, and the
\* cache lookup and every fetch that was started settle.  Nothing is assumed
\* of the store handed to waitUntil, of eviction, or of the arrival and the
\* departure of requests.
Fairness ==
    \A r \in Slots :
        /\ WF_vars(Lookup(r))
        /\ WF_vars(Join(r))
        /\ \A i \in 1..MaxFiles : WF_vars(Settle(r, i))

FairSpec == Spec /\ Fairness

(***************************************************************************)
(* Properties.                                                             *)
(***************************************************************************)
\* p occurs in s.
includes(s, p) == \E i \in 1..(Len(s) - Len(p) + 1) : SubSeq(s, i, i + Len(p) - 1) = p

Count(seq, x) == Cardinality({i \in DOMAIN seq : seq[i] = x})

\* b is a reordering of a.
IsPermutation(a, b) ==
    /\ Len(a) = Len(b)
    /\ \A i \in DOMAIN a : Count(a, a[i]) = Count(b, a[i])

\* Every validated file list a body of the pool yields.
ValidatedFileSets == { validate(Body("array", fs, "")).validFiles : fs \in GoodLists }

KeyTable == [fs \in ValidatedFileSets |-> cacheKeyOf(fs)]

\* The members a request asks for: one per validated entry.
ExpectedMembers(files) ==
    [i \in 1..Len(files) |->
        [filename |-> files[i].filename, data |-> OriginBytes(files[i].url)]]

Names(members) == [i \in 1..Len(members) |-> members[i].filename]

Answered200(r) ==
    pc[r] = "done" /\ request[r].method = "POST" /\ response[r].status = 200

SomeRejected(r) == \E i \in 1..Len(downloads[r]) : isRejected(downloads[r][i])

\* C1: a validated file list and every reordering of it derive the same
\* cache key, also when entries share a url and differ in filename.
C1_ReorderingSameKey ==
    \A r \in Slots :
        validFiles[r] # <<>> =>
            \A fs \in ValidatedFileSets :
                IsPermutation(fs, validFiles[r]) => KeyTable[fs] = cacheKey[r]

\* C2: with an injective hash, two validated file lists that are not
\* reorderings of each other never derive the same cache key.
C2_DifferentSetDifferentKey ==
    \A r \in Slots :
        validFiles[r] # <<>> =>
            \A fs \in ValidatedFileSets :
                ~IsPermutation(fs, validFiles[r]) => KeyTable[fs] # cacheKey[r]

\* C3: the archive of every 200 response to a POST holds exactly the members
\* its own request asks for: one per entry, named by the normalised filename
\* and holding the bytes of the entry's url.
C3_ArchiveIsTheRequest ==
    \A r \in Slots :
        Answered200(r) =>
            IsPermutation(response[r].body.zip, ExpectedMembers(validFiles[r]))

HasDisallowedUrl(body) ==
    /\ body.kind = "array"
    /\ \E i \in 1..Len(body.files) :
          /\ body.files[i].kind = "object"
          /\ body.files[i].url # ""
          /\ ~isAllowedSource(body.files[i].url)

\* C4: a POST whose file list has an entry with a url outside the allow-list
\* is answered 400 and fetches nothing; no fetch goes outside the allow-list.
C4_DisallowedUrlIs400 ==
    \A r \in Slots :
        /\ \A i \in 1..Len(fetched[r]) : isAllowedSource(fetched[r][i])
        /\ (pc[r] = "done" /\ request[r].method = "POST"
            /\ HasDisallowedUrl(request[r].body))
           => (response[r].status = 400 /\ fetched[r] = <<>>)

\* C5: when a retrieval of a request fails the request is answered 500,
\* carries no archive and schedules no store; a 200 answer of the miss path
\* has every retrieval fulfilled and one member per requested file.
C5_NoPartialArchive ==
    \A r \in Slots :
        /\ (pc[r] = "done" /\ SomeRejected(r)) =>
              /\ response[r].status = 500
              /\ response[r].body.type # "zip"
              /\ store[r].state = "none"
        /\ (Answered200(r) /\ lookup[r] # "hit") =>
              /\ \A i \in 1..Len(downloads[r]) : isFulfilled(downloads[r][i])
              /\ Len(response[r].body.zip) = Len(validFiles[r])

C5_Witness ==
    \E r \in Slots :
        /\ pc[r] = "done"
        /\ response[r].status = 500
        /\ \E i, j \in 1..Len(downloads[r]) :
              isRejected(downloads[r][i]) /\ isFulfilled(downloads[r][j])

\* C6: the fetcher decides after every retrieval has settled, and the
\* aggregate error names every failed url with its reason, whatever the
\* cause of the failure.
C6_AggregateNamesEveryFailure ==
    \A r \in Slots :
        (pc[r] = "done" /\ SomeRejected(r)) =>
            /\ allSettled(downloads[r])
            /\ \A i \in 1..Len(downloads[r]) :
                  isRejected(downloads[r][i]) =>
                      /\ includes(response[r].body.text, downloads[r][i].url)
                      /\ includes(response[r].body.text, downloads[r][i].reason)

\* C7 as stated: on the miss path and on the hit path alike, the members of
\* a 200 answer come in the order of the request's own file list (stated for
\* the answers whose archive holds the members the request asks for).
C7_OrderOnBothPaths ==
    \A r \in Slots :
        (Answered200(r)
         /\ IsPermutation(response[r].body.zip, ExpectedMembers(validFiles[r])))
        => Names(response[r].body.zip) = Names(validFiles[r])

\* C7 amended: on the miss path the members of a 200 answer come in the
\* order of the request's own file list.
C7_OrderOnMissPath ==
    \A r \in Slots :
        (Answered200(r) /\ lookup[r] # "hit") =>
            Names(response[r].body.zip) = Names(validFiles[r])

C7_Witness ==
    \E r \in Slots :
        /\ Answered200(r)
        /\ lookup[r] = "absent"
        /\ Len(validFiles[r]) >= 2
        /\ localeCompare(validFiles[r][1].url, validFiles[r][2].url) > 0

StoredFor(files) == {k \in DOMAIN cache : IsPermutation(cache[k].files, files)}

\* C8: once a request of the miss path has stored its archive, a later
\* request for the same file set in any order whose lookup succeeds while
\* the entry is in the cache fetches nothing and returns the stored bytes
\* with the stored tag.
C8_LaterRequestIsServedFromCache ==
    [][\A r \in Slots :
          (/\ pc[r] = "lookup"
           /\ pc'[r] # "lookup"
           /\ lookup'[r] # "error"
           /\ StoredFor(validFiles[r]) # {})
          => /\ pc'[r] = "done"
             /\ fetched'[r] = <<>>
             /\ store'[r].state = "none"
             /\ \E k \in StoredFor(validFiles[r]) :
                   response'[r] = createZipResponse(cache[k].data, cache[k].etag,
                                                    request[r].body.zipFilename)]_vars

\* C9: a request whose cache lookup failed goes on as on a miss: it fetches
\* every file, and it is answered 200 with the assembled archive and a
\* scheduled store exactly when a miss would be, never with an error caused
\* by the lookup.
C9_LookupErrorIsAMiss ==
    \A r \in Slots :
        lookup[r] = "error" =>
            /\ pc[r] \in {"fetching", "done"}
            /\ fetched[r] = [i \in 1..Len(validFiles[r]) |-> validFiles[r][i].url]
            /\ pc[r] = "done" =>
                  IF SomeRejected(r) \/ createZip(downloads[r]).threw
                  THEN /\ response[r].status = 500
                       /\ response[r].body.text
                            = "Internal Server Error: " \o createZipFromFiles(downloads[r]).message
                  ELSE /\ response[r].status = 200
                       /\ response[r].body.zip = ExpectedMembers(validFiles[r])
                       /\ store[r].state # "none"

C9_Witness ==
    \E r \in Slots :
        lookup[r] = "error" /\ Answered200(r) /\ store[r].state = "pending"

\* C10: once the store is scheduled the request is already answered 200
\* with the assembled bytes and their tag, and stays so whether the store is
\* pending, has succeeded or has failed.
C10_AnswerDoesNotWaitForStore ==
    \A r \in Slots :
        store[r].state # "none" =>
            /\ pc[r] = "done"
            /\ response[r] = createZipResponse(store[r].data, generateETag(store[r].data),
                                               request[r].body.zipFilename)
            /\ response[r].status = 200

C10_Witness ==
    \E r \in Slots : store[r].state = "failed" /\ Answered200(r)

\* What a client sees of a 200 answer besides the archive and its tag.
Shape(resp) ==
    [status |-> resp.status,
     names |-> DOMAIN resp.headers,
     type |-> resp.headers["Content-Type"],
     disposition |-> resp.headers["Content-Disposition"],
     freshness |-> resp.headers["Cache-Control"]]

\* The shape a request that names its archive zipFilename is owed.
ShapeFor(zipFilename) ==
    [status |-> 200,
     names |-> {"Content-Type", "Content-Disposition", "ETag", "Cache-Control",
                "Access-Control-Allow-Origin"},
     type |-> "application/zip",
     disposition |-> IF zipFilename = ""
                     THEN "attachment; filename=\"jars.zip\""
                     ELSE "attachment; filename=\"" \o zipFilename \o "\"",
     freshness |-> "public, max-age=31536000, immutable"]

\* C11: the status, the header names, the content type, the content
\* disposition and the freshness directive of a 200 answer are determined by
\* the zipFilename of the answered request alone (the fallback name when it
\* gives none), on the hit path and on the miss path alike; two answers to
\* requests with the same zipFilename have the same shape whichever path
\* each took.
C11_SameShapeOnHitAndMiss ==
    /\ \A r \in Slots :
          Answered200(r) => Shape(response[r]) = ShapeFor(request[r].body.zipFilename)
    /\ \A r, s \in Slots :
          (/\ Answered200(r) /\ Answered200(s)
           /\ request[r].body.zipFilename = request[s].body.zipFilename)
          => Shape(response[r]) = Shape(response[s])

\* A request that names its archive is served from the cache.
C11_Witness ==
    \E r \in Slots :
        /\ Answered200(r)
        /\ lookup[r] = "hit"
        /\ request[r].body.zipFilename = "pack.zip"

\* C12: every response the handler returns, whatever the request and the
\* outcome, carries Access-Control-Allow-Origin: *.
C12_EveryResponseAllowsAnyOrigin ==
    \A r \in Slots :
        pc[r] = "done" =>
            /\ "Access-Control-Allow-Origin" \in DOMAIN response[r].headers
            /\ response[r].headers["Access-Control-Allow-Origin"] = "*"

\* The entry has no usable url or filename: it is null, or a property is
\* missing or empty.
LacksUrlOrFilename(entry) == entry.kind = "null" \/ entry.url = "" \/ entry.filename = ""

\* The rejection conditions of C13.
MustBeRejected(body) ==
    \/ body.kind \in {"noFiles", "notArray"}
    \/ Len(body.files) = 0
    \/ \E i \in 1..Len(body.files) :
          \/ LacksUrlOrFilename(body.files[i])
          \/ URLprotocol(body.files[i].url) \notin {"http:", "https:"}
          \/ ~isAllowedSource(body.files[i].url)

\* C13: a POST whose body parses is answered 400 exactly when its file list
\* is missing, not an array or empty, or an entry lacks url or filename, or
\* has a url that is not a valid absolute http/https url, or has a url
\* outside the allow-list.
C13_Status400IffInvalid ==
    \A r \in Slots :
        (pc[r] = "done" /\ request[r].method = "POST" /\ request[r].body.kind # "badJson")
        => (response[r].status = 400 <=> MustBeRejected(request[r].body))

\* The last four characters of f are ".jar" in some mix of cases.
HasJarSuffix(f) == Len(f) >= 4 /\ toLowerCase(SubSeq(f, Len(f) - 3, Len(f))) = ".jar"

ExpectedName(f) == IF HasJarSuffix(f) THEN f ELSE f \o ".jar"

\* C14: for every accepted entry with requested filename f the handler goes
\* on with f itself when f ends with ".jar" in any case and with f followed
\* by ".jar" otherwise: that name names the download and the member of the
\* archive the request assembles, and when the lookup is made it is the name
\* in the key and normalising it again leaves it unchanged.
C14_NormalizedNames ==
    \A r \in Slots :
        validFiles[r] # <<>> =>
            /\ Names(validFiles[r])
                 = [i \in 1..Len(request[r].body.files) |->
                       ExpectedName(request[r].body.files[i].filename)]
            /\ pc[r] = "lookup" =>
                  /\ \A i \in 1..Len(validFiles[r]) :
                        normalizeFilename(validFiles[r][i].filename)
                          = validFiles[r][i].filename
                  /\ cacheKey[r] = cacheKeyOf(validFiles[r])
            /\ downloads[r] # <<>> => Names(downloads[r]) = Names(validFiles[r])
            /\ (Answered200(r) /\ lookup[r] # "hit")
               => Names(response[r].body.zip) = Names(validFiles[r])

\* An archive assembled for a request that names one file without the
\* suffix and one with the suffix in upper case.
C14_Witness ==
    \E r \in Slots :
        /\ Answered200(r)
        /\ lookup[r] = "absent"
        /\ Names(request[r].body.files) = << "y", "x.JAR" >>
        /\ Names(response[r].body.zip) = << "y.jar", "x.JAR" >>

\* r and s are two requests for the same file set that both missed the
\* cache, fetched, assembled and scheduled their store.
BothMissed(r, s) ==
    /\ r # s
    /\ lookup[r] \in {"absent", "error"} /\ lookup[s] \in {"absent", "error"}
    /\ IsPermutation(validFiles[r], validFiles[s])
    /\ store[r].state # "none" /\ store[s].state # "none"

\* Each fetched its own files and is answered 200 with the members it asked
\* for.
EachServedItsOwn(r) ==
    /\ fetched[r] = [i \in 1..Len(validFiles[r]) |-> validFiles[r][i].url]
    /\ Answered200(r)
    /\ IsPermutation(response[r].body.zip, ExpectedMembers(validFiles[r]))

\* The entry under r's key is the bundle of one store, bytes and tag.
OneBundleWhole(r, s) ==
    \E w \in {r, s} :
        /\ cache[cacheKey[r]].data = store[w].data
        /\ cache[cacheKey[r]].etag = store[w].etag

BothStored(r, s) ==
    /\ store[r].state = "stored" /\ store[s].state = "stored"
    /\ cacheKey[r] \in DOMAIN cache

C16_DownloadsPairedByPosition ==
    \A r \in Slots :
        (/\ lookup[r] \in {"absent", "error"}
         /\ allSettled(downloads[r])
         /\ ~SomeRejected(r))
        => LET downloadedFiles == SelectSeq(downloads[r], isFulfilled)
           IN  /\ Len(downloadedFiles) = Len(validFiles[r])
               /\ \A i \in 1..Len(validFiles[r]) :
                     /\ downloadedFiles[i].filename = validFiles[r][i].filename
                     /\ downloadedFiles[i].data = OriginBytes(validFiles[r][i].url)

\* Every download of a request for files at two urls is fulfilled and
\* createZip has not been called yet.
C16_Witness ==
    \E r \in Slots :
        /\ pc[r] = "fetching"
        /\ Len(downloads[r]) = 2
        /\ \A i \in 1..2 : isFulfilled(downloads[r][i])
        /\ validFiles[r][1].url # validFiles[r][2].url

\* C17: the fetches a request has made are one per entry of its file list,
\* in list order, once its lookup has missed or failed, and none before
\* that, when validation rejected it or when the lookup hit; this stays so
\* after a download has failed.
C17_OneRetrievalPerEntry ==
    \A r \in Slots :
        /\ lookup[r] \in {"absent", "error"} =>
              fetched[r] = [i \in 1..Len(request[r].body.files) |->
                               request[r].body.files[i].url]
        /\ lookup[r] \in {"none", "hit"} => fetched[r] = <<>>
        /\ (pc[r] = "done" /\ response[r].status \in {400, 405}) => lookup[r] = "none"

\* A request answered after one of its two downloads failed has fetched
\* twice.
C17_Witness ==
    \E r \in Slots :
        /\ pc[r] = "done"
        /\ SomeRejected(r)
        /\ Len(request[r].body.files) = 2
        /\ Len(fetched[r]) = 2

SomePending(r) == \E i \in 1..Len(downloads[r]) : downloads[r][i].status = "pending"

\* C18: when the lookup and every download that was started settle, every
\* request is answered, whether or not its store completes; the answer, once
\* given, is the one answer of the request; and a request with a download
\* still pending is not answered, whatever has become of its other
\* downloads.
C18_AnsweredWhenAllSettle ==
    /\ \A r \in Slots : (pc[r] # "idle") ~> (pc[r] = "done")
    /\ [][\A r \in Slots :
             response[r] # NoResponse =>
                 (response'[r] = response[r] \/ pc'[r] = "idle")]_vars
    /\ [](\A r \in Slots :
             SomePending(r) => (pc[r] = "fetching" /\ response[r] = NoResponse))

\* One download of a request has failed and the other is still pending.
C18_Witness ==
    \E r \in Slots :
        /\ pc[r] = "fetching"
        /\ SomeRejected(r)
        /\ SomePending(r)
        /\ response[r] = NoResponse

\* C19: the ETag of every 200 answer to a POST is the tag of the archive in
\* that answer, on the miss path and on the hit path; every cache entry
\* holds an archive with its own tag, and every scheduled store carries one.
C19_TagIsOfTheBytes ==
    /\ \A r \in Slots :
          Answered200(r) =>
              response[r].headers["ETag"] = generateETag(response[r].body.zip)
    /\ \A k \in DOMAIN cache : cache[k].etag = generateETag(cache[k].data)
    /\ \A r \in Slots :
          store[r].state # "none" => store[r].etag = generateETag(store[r].data)

\* An answer served from the entry that is in the cache.
C19_Witness ==
    \E r \in Slots :
        /\ Answered200(r)
        /\ lookup[r] = "hit"
        /\ cacheKey[r] \in DOMAIN cache
        /\ response[r].body.zip = cache[cacheKey[r]].data
        /\ response[r].headers["ETag"] = cache[cacheKey[r]].etag

\* The step completes the store of request r: r passed validation, its
\* lookup missed or failed, every download was fulfilled and the archive
\* stored is the one assembled from them.
StoresItsArchive(r) ==
    /\ store[r].state = "pending" /\ store'[r].state = "stored"
    /\ request[r].method = "POST" /\ validFiles[r] # <<>>
    /\ lookup[r] \in {"absent", "error"}
    /\ \A i \in 1..Len(downloads[r]) : isFulfilled(downloads[r][i])
    /\ Len(downloads[r]) = Len(validFiles[r])
    /\ store[r].key = cacheKey[r]
    /\ store[r].data = createZip(downloads[r]).data
    /\ cacheKey[r] \in DOMAIN cache'
    /\ cache'[cacheKey[r]].data = store[r].data
    /\ cache'[cacheKey[r]].etag = store[r].etag

\* The entries under the keys other than those of keys are as they were, or
\* gone.
OthersUntouched(keys) ==
    \A k \in DOMAIN cache' \ keys : k \in DOMAIN cache /\ cache'[k] = cache[k]

\* The step answers request r with something else than an assembled archive.
AnswersWithoutAssembling(r) ==
    /\ pc[r] # "done" /\ pc'[r] = "done"
    /\ \/ request'[r].method # "POST"
       \/ response'[r].status \in {400, 405, 500}
       \/ lookup'[r] = "hit"

=============================================================================
